---- MODULE Spec2Model ----
(***************************************************************************)
(* ilorm: schema initialisation (Schema.init, Schema.initInstance,         *)
(* SchemaField.init) and the query operation builder, as state machines    *)
(* over the JavaScript job queue.                                          *)
(***************************************************************************)
EXTENDS Integers, Sequences, FiniteSets, TLC

\* ------------------------------------------------------------------------
\* Bounds of the model
\* ------------------------------------------------------------------------
MaxKeys == 2
MaxQuery == 2
MaxInits == 2
MaxDirty == 2
MaxSaves == 2
MaxRemoves == 2
MaxOps == 2
MaxFieldObjs == 2
MaxSchemas == 2

\* ------------------------------------------------------------------------
\* JavaScript values and plain objects
\* ------------------------------------------------------------------------
UNDEF == "undefined"
NULL == "null"

\* An object is the sequence of its own <<key, value>> pairs, in own-key order.
ObjKeys(o) == [i \in 1..Len(o) |-> o[i][1]]

KeySet(o) == {o[i][1] : i \in 1..Len(o)}

Has(o, k) == k \in KeySet(o)

Get(o, k) ==
  IF Has(o, k) THEN (CHOOSE pr \in {o[i] : i \in 1..Len(o)} : pr[1] = k)[2] ELSE UNDEF

Put(o, k, v) ==
  IF Has(o, k) THEN [i \in 1..Len(o) |-> IF o[i][1] = k THEN <<k, v>> ELSE o[i]]
  ELSE Append(o, <<k, v>>)

Delete(o, k) == SelectSeq(o, LAMBDA pr : pr[1] # k)

RECURSIVE DeleteAll(_, _)
DeleteAll(o, ks) ==
  IF ks = <<>> THEN o ELSE DeleteAll(Delete(o, Head(ks)), Tail(ks))

\* Array.prototype.indexOf, 0-based, -1 when absent
UNDEFINED_INDEX == -1

IndexOf(s, x) ==
  IF \E i \in 1..Len(s) : s[i] = x
  THEN (CHOOSE i \in 1..Len(s) : s[i] = x /\ \A j \in 1..(i - 1) : s[j] # x) - 1
  ELSE UNDEFINED_INDEX

\* Array.prototype.splice(index, 1), 0-based index
Splice1(s, idx) == [i \in 1..(Len(s) - 1) |-> IF i <= idx THEN s[i] ELSE s[i + 1]]

\* ------------------------------------------------------------------------
\* SchemaField
\* ------------------------------------------------------------------------
NoError == [msg |-> "none", value |-> UNDEF, field |-> UNDEF]

\* new SchemaField(): the hook is the class's isValid ("base"), or the
\* isValid of a child class that checks the value ("typed").
SchemaFieldNew(hook) ==
  [_isRequired |-> FALSE, _default |-> [fn |-> FALSE, value |-> NULL, settle |-> "sync"],
   _name |-> NULL, hook |-> hook]

required(f, isRequired) == [f EXCEPT !._isRequired = isRequired]

default(f, d) == [f EXCEPT !._default = d]

Literal(v) == [fn |-> FALSE, value |-> v, settle |-> "sync"]

\* a zero-argument producer: returns v itself ("sync"), a promise already
\* fulfilled with v ("resolved"), or a promise a later event fulfils ("pending")
Producer(v, settle) == [fn |-> TRUE, value |-> v, settle |-> settle]

isValid(f, value) == IF f.hook = "base" THEN TRUE ELSE value # "bad"

\* the class's castValue returns the value as it is ("base"); a child
\* class's brings it to the form its type stores ("typed")
castValue(f, value) ==
  IF f.hook = "base" THEN value ELSE IF value = "Ann" THEN "ann" ELSE value

FieldTypes ==
  { SchemaFieldNew("base"),
    required(SchemaFieldNew("typed"), TRUE),
    default(SchemaFieldNew("typed"), Literal("zero")),
    default(SchemaFieldNew("typed"), Producer("made", "sync")),
    default(SchemaFieldNew("typed"), Producer("made", "resolved")),
    default(SchemaFieldNew("typed"), Producer("made", "pending")) }

\* ------------------------------------------------------------------------
\* Schema
\* ------------------------------------------------------------------------
KEEP == "keep"
ERROR == "error"
ERASE == "erase"

DEFAULT_OPTIONS == << <<"undefinedProperties", ERASE>> >>

SetName(definition, property) ==
  [i \in 1..Len(definition) |->
     IF definition[i][1] = property
     THEN <<property, [definition[i][2] EXCEPT !._name = property]>>
     ELSE definition[i]]

RECURSIVE NameAll(_, _)
NameAll(definition, properties) ==
  IF properties = <<>> THEN definition
  ELSE NameAll(SetName(definition, Head(properties)), Tail(properties))

\* new Schema(schemaDefinition, options)
SchemaNew(schemaDefinition, options) ==
  [definition |-> NameAll(schemaDefinition, ObjKeys(schemaDefinition)),
   properties |-> ObjKeys(schemaDefinition),
   undefinedPropertyPolicy |-> Get(options, "undefinedPropertyPolicy")]

\* ------------------------------------------------------------------------
\* Inputs
\* ------------------------------------------------------------------------
\* the field names schemas are declared over, in declaration order
FieldOrder == <<"name", "age">>

NumFields == Len(FieldOrder)

Keys == {FieldOrder[i] : i \in 1..NumFields} \cup {"extra"}

RawValues == {"Ann", "bad", UNDEF}

Definitions ==
  UNION { { [i \in 1..n |-> <<FieldOrder[i], fts[i]>>] : fts \in [1..n -> FieldTypes] }
          : n \in 1..NumFields }

OptionsSet ==
  { DEFAULT_OPTIONS,
    << <<"undefinedPropertyPolicy", KEEP>> >>,
    << <<"undefinedPropertyPolicy", ERROR>> >>,
    << <<"undefinedPropertyPolicy", ERASE>> >> }

KeySeqs ==
  UNION { { ks \in [1..n -> Keys] : \A i, j \in 1..n : i # j => ks[i] # ks[j] }
          : n \in 0..MaxKeys }

RawObjects ==
  UNION { { [i \in 1..Len(ks) |-> <<ks[i], vs[i]>>] : vs \in [1..Len(ks) -> RawValues] }
          : ks \in KeySeqs }

\* ------------------------------------------------------------------------
\* State
\* ------------------------------------------------------------------------
VARIABLES
  schema,         \* the Schema built by the constructor
  awaitTicks,     \* jobs an await of a native promise takes: 1 (ES2019), 3 (before)
  heap,           \* reference -> object: "arg" the argument, "new" initInstance's instance
  given,          \* the argument object as it was when the call was made
  rawProperties,  \* Schema.init's local list of raw keys, shared with its callbacks
  fieldPc,        \* per property: where its SchemaField.init call stands
  fieldRet,       \* per property: the value SchemaField.init read or returned
  fieldErr,       \* per property: the error SchemaField.init threw
  cbPc,           \* per property: where the forEach/map callback stands
  producer,       \* per property: the promise returned by its _default() call
  calls,          \* per property: how often _default() was invoked
  all,            \* the Promise.all of initInstance
  op,             \* the method that was called: "init" or "initInstance"
  outerPc,        \* where its body stands
  result,         \* the promise returned by Schema.init / Schema.initInstance
  jobs,           \* the promise job queue
  registered,     \* reactions registered on promises that are still pending
  unhandled,      \* rejections of promises nobody observes
  query,          \* the pending-operations list of a query
  thrown,         \* the error the last handleQueryOperator call threw
  lastCall,       \* the arguments of the last handleQueryOperator call
  handle,         \* what the last handleQueryOperator call returned
  invoked,        \* the arguments of the calls made with a truthy context, in order
  completed,      \* the entries of the list whose deferred value is there, in order
  join,           \* the join (Promise.all) of the pending-operations list
  lastOp,         \* the declared operator the last call went through, if any
  inits,          \* how many direct SchemaField.init calls were made on the holder
  target,         \* the field those calls are made for
  callsBefore,    \* how often _default() had been invoked when the latest one was made
  first,          \* what the first of those calls found and did
  isNew,          \* the model instance's IS_NEW flag
  listUpdatedFields, \* the model instance's LIST_UPDATED_FIELDS array
  instance,       \* the model instance's own properties
  modelPc,        \* how the model instance came to be: "none", "new", "loaded"
  assigned,       \* the names the application assigned since the last save or load
  saves,          \* one entry per save() call: the connector call it made, its outcome
  connectorCalls, \* the calls the connector received, in order
  removes,        \* one entry per remove() call: the promise it returned
  fieldObjs,      \* the SchemaField objects of the program, by reference
  schemas,        \* the Schema objects constructed over them, in order
  proxied,        \* the object behind a Schema proxy
  lastSet,        \* the latest call of the proxy's set handler
  setReturn,      \* what that call returned
  collection,     \* the connector's memoised collection promise
  lookups,        \* how often db.collection was invoked
  ops             \* the connector operations called, in order

schemaVars ==
  <<heap, given, rawProperties, fieldPc, fieldRet, fieldErr, cbPc, producer, calls,
    all, op, outerPc, result, jobs, registered, unhandled>>

queryVars == <<query, thrown, lastCall, handle, invoked, completed, join, lastOp>>

fieldVars == <<inits, target, callsBefore, first>>

modelVars ==
  <<isNew, listUpdatedFields, instance, modelPc, assigned, saves, connectorCalls,
    removes>>

ctorVars == <<fieldObjs, schemas>>

proxyVars == <<proxied, lastSet, setReturn>>

mongoVars == <<collection, lookups, ops>>

extVars == <<fieldVars, modelVars, ctorVars, proxyVars, mongoVars>>

vars == <<schema, awaitTicks, schemaVars, queryVars, extVars>>

Properties == {FieldOrder[i] : i \in 1..NumFields}

Pending == [status |-> "pending", ref |-> UNDEF, error |-> NoError]

NoCall ==
  /\ heap = [arg |-> <<>>, new |-> <<>>]
  /\ given = <<>>
  /\ rawProperties = <<>>
  /\ fieldPc = [p \in Properties |-> "idle"]
  /\ fieldRet = [p \in Properties |-> UNDEF]
  /\ fieldErr = [p \in Properties |-> NoError]
  /\ cbPc = [p \in Properties |-> "idle"]
  /\ producer = [p \in Properties |-> "none"]
  /\ calls = [p \in Properties |-> 0]
  /\ all = [status |-> "none", remaining |-> 0, error |-> NoError]
  /\ op = "none"
  /\ outerPc = "idle"
  /\ result = Pending
  /\ jobs = <<>>
  /\ registered = {}
  /\ unhandled = {}

NoArgs == [context |-> UNDEF, operator |-> UNDEF, value |-> UNDEF]

NoHandle == [context |-> UNDEF, query |-> <<>>]

NoJoin == [status |-> "none", n |-> 0, remaining |-> 0, values |-> <<>>]

NoOp == [field |-> UNDEF, operation |-> UNDEF]

NoQuery ==
  /\ query = <<>>
  /\ thrown = NoError
  /\ lastCall = NoArgs
  /\ handle = NoHandle
  /\ invoked = <<>>
  /\ completed = <<>>
  /\ join = NoJoin
  /\ lastOp = NoOp

NoFirst == [lacking |-> FALSE, pc |-> "idle", ret |-> UNDEF, calls |-> 0]

NoFieldCall ==
  /\ inits = 0
  /\ target = UNDEF
  /\ callsBefore = 0
  /\ first = NoFirst

NoModel ==
  /\ isNew = TRUE
  /\ listUpdatedFields = <<>>
  /\ instance = <<>>
  /\ modelPc = "none"
  /\ assigned = {}
  /\ saves = <<>>
  /\ connectorCalls = <<>>
  /\ removes = <<>>

NoSet == [property |-> UNDEF, value |-> UNDEF, before |-> <<>>]

NoReturn == [returned |-> UNDEF, error |-> NoError]

NoProxy ==
  /\ proxied = <<>>
  /\ lastSet = NoSet
  /\ setReturn = NoReturn

NoSchemas ==
  /\ fieldObjs = <<>>
  /\ schemas = <<>>

Unset == [status |-> "unset", error |-> NoError]

NoConnector ==
  /\ collection = Unset
  /\ lookups = 0
  /\ ops = <<>>

NoExt == NoFieldCall /\ NoModel /\ NoSchemas /\ NoProxy /\ NoConnector

Init ==
  /\ schema \in {SchemaNew(d, o) : d \in Definitions, o \in OptionsSet}
  /\ awaitTicks \in {1, 3}
  /\ NoCall
  /\ NoQuery
  /\ NoExt

\* ------------------------------------------------------------------------
\* Promise jobs. A waiter is a suspended piece of code: the SchemaField.init
\* of a property ("field"), the forEach/map callback of a property ("cb"),
\* the reaction Promise.all put on a callback's promise ("all"), or the body
\* of Schema.init / Schema.initInstance ("outer").
\* ------------------------------------------------------------------------
Waiter(on, p) == [on |-> on, p |-> p]

Job(kind, w) == [kind |-> kind, w |-> w]

Machine ==
  [heap |-> heap, jobs |-> jobs, registered |-> registered, fieldPc |-> fieldPc,
   fieldRet |-> fieldRet, cbPc |-> cbPc, producer |-> producer, calls |-> calls]

Commit(m) ==
  /\ heap' = m.heap
  /\ jobs' = m.jobs
  /\ registered' = m.registered
  /\ fieldPc' = m.fieldPc
  /\ fieldRet' = m.fieldRet
  /\ cbPc' = m.cbPc
  /\ producer' = m.producer
  /\ calls' = m.calls

\* await v, v not a promise: the continuation is one job away
AwaitValue(m, w) == [m EXCEPT !.jobs = Append(@, Job("cont", w))]

\* await p, p a native promise. ES2019: the continuation is a reaction of p
\* itself. Before: p is adopted by a fresh promise, through a job that calls
\* p.then and a reaction that resolves the fresh promise.
AwaitPromise(m, w, settled) ==
  IF awaitTicks = 1
  THEN IF settled THEN [m EXCEPT !.jobs = Append(@, Job("cont", w))]
       ELSE [m EXCEPT !.registered = @ \cup {w}]
  ELSE [m EXCEPT !.jobs = Append(@, Job("thenable", w))]

\* p.then(...) on a pending promise (Promise.all on each of its elements)
Then(m, w) == [m EXCEPT !.registered = @ \cup {w}]

\* a promise settles: the reaction registered on it, if any, becomes a job
Notify(m, w) ==
  IF w \in m.registered
  THEN [m EXCEPT !.registered = @ \ {w},
                 !.jobs = Append(@, Job(IF awaitTicks = 3 /\ w.on # "all"
                                        THEN "react" ELSE "cont", w))]
  ELSE m

FieldOf(property) == Get(schema.definition, property)

\* ------------------------------------------------------------------------
\* SchemaField.init(instance, field), up to its first await or its return
\* ------------------------------------------------------------------------
FieldInitStart(m, ref, property) ==
  LET f == FieldOf(property)
      value == Get(m.heap[ref], property)
      w == Waiter("field", property)
  IN IF value # UNDEF
     THEN AwaitPromise([m EXCEPT !.fieldPc[property] = "awaitValid",
                                 !.fieldRet[property] = value], w, TRUE)
     ELSE IF f._default.fn
     THEN LET called == [m EXCEPT !.fieldPc[property] = "awaitDefault",
                                  !.calls[property] = @ + 1]
          IN CASE f._default.settle = "sync" -> AwaitValue(called, w)
               [] f._default.settle = "resolved" ->
                    AwaitPromise([called EXCEPT !.producer[property] = "fulfilled"], w, TRUE)
               [] OTHER ->
                    AwaitPromise([called EXCEPT !.producer[property] = "pending"], w, FALSE)
     ELSE [m EXCEPT !.heap[ref] = Put(@, property, f._default.value),
                    !.fieldPc[property] = "returned",
                    !.fieldRet[property] = f._default.value]

\* the promise returned by a property's SchemaField.init is settled
FieldSettled(m, property) == m.fieldPc[property] \in {"returned", "threw"}

\* the callback given to forEach/map: it calls SchemaField.init and awaits it
CallbackStart(m, ref, property) ==
  LET m1 == FieldInitStart(m, ref, property)
  IN AwaitPromise([m1 EXCEPT !.cbPc[property] = "awaitInit"],
                  Waiter("cb", property), FieldSettled(m1, property))

RECURSIVE ForEach(_, _, _)
ForEach(m, ref, properties) ==
  IF properties = <<>> THEN m
  ELSE ForEach(CallbackStart(m, ref, Head(properties)), ref, Tail(properties))

Outer == Waiter("outer", "-")

Invalid(value, name) == [msg |-> "Invalid", value |-> value, field |-> name]

UndefinedProperty(key) == [msg |-> "UndefinedProperty", value |-> UNDEF, field |-> key]

Fulfilled(ref) == [status |-> "fulfilled", ref |-> ref, error |-> NoError]

Rejected(e) == [status |-> "rejected", ref |-> UNDEF, error |-> e]

\* ------------------------------------------------------------------------
\* Schema.init(rawObject): the forEach over the properties, then the await
\* of forEach's result, which is undefined
\* ------------------------------------------------------------------------
SchemaInitStart(m, properties) == AwaitValue(ForEach(m, "arg", properties), Outer)

CallInit(rawObject) ==
  /\ outerPc = "idle"
  /\ op' = "init"
  /\ outerPc' = "await"
  /\ given' = rawObject
  /\ rawProperties' = ObjKeys(rawObject)
  /\ Commit(SchemaInitStart([Machine EXCEPT !.heap.arg = rawObject], schema.properties))
  /\ UNCHANGED <<schema, awaitTicks, fieldErr, all, result, unhandled, queryVars, extVars>>

\* ------------------------------------------------------------------------
\* Schema.initInstance(modelInstance): the map over the properties, then
\* Promise.all of the callbacks' promises, then its await
\* ------------------------------------------------------------------------
RECURSIVE PromiseAll(_, _)
PromiseAll(m, properties) ==
  IF properties = <<>> THEN m
  ELSE PromiseAll(Then(m, Waiter("all", Head(properties))), Tail(properties))

SchemaInitInstanceStart(m, properties) ==
  AwaitPromise(PromiseAll(ForEach(m, "arg", properties), properties), Outer, FALSE)

CallInitInstance(modelInstance) ==
  /\ outerPc = "idle"
  /\ op' = "initInstance"
  /\ outerPc' = "await"
  /\ given' = modelInstance
  /\ all' = [status |-> "pending", remaining |-> Len(schema.properties), error |-> NoError]
  /\ Commit(SchemaInitInstanceStart([Machine EXCEPT !.heap.arg = modelInstance,
                                                    !.heap.new = <<>>],
                                    schema.properties))
  /\ UNCHANGED <<schema, awaitTicks, rawProperties, fieldErr, result, unhandled, queryVars, extVars>>

\* ------------------------------------------------------------------------
\* Jobs of the await protocol that precedes ES2019
\* ------------------------------------------------------------------------
TargetSettled(w) ==
  CASE w.on = "field" -> fieldPc[w.p] = "awaitValid" \/ producer[w.p] = "fulfilled"
    [] w.on = "cb" -> fieldPc[w.p] \in {"returned", "threw"}
    [] OTHER -> all.status \in {"fulfilled", "rejected"}

\* the job that calls then() on the awaited promise
ThenableJob ==
  /\ jobs # <<>>
  /\ Head(jobs).kind = "thenable"
  /\ LET w == Head(jobs).w
     IN IF TargetSettled(w)
        THEN /\ jobs' = Append(Tail(jobs), Job("react", w))
             /\ UNCHANGED registered
        ELSE /\ jobs' = Tail(jobs)
             /\ registered' = registered \cup {w}
  /\ UNCHANGED <<schema, awaitTicks, heap, given, rawProperties, fieldPc, fieldRet,
                 fieldErr, cbPc, producer, calls, all, op, outerPc, result, unhandled,
                 queryVars, extVars>>

\* the reaction that resolves the promise the await created
ReactJob ==
  /\ jobs # <<>>
  /\ Head(jobs).kind = "react"
  /\ jobs' = Append(Tail(jobs), Job("cont", Head(jobs).w))
  /\ UNCHANGED <<schema, awaitTicks, heap, given, rawProperties, fieldPc, fieldRet,
                 fieldErr, cbPc, producer, calls, all, op, outerPc, result, registered,
                 unhandled, queryVars, extVars>>

\* the next job is the continuation of waiter w
Resumes(w) == jobs # <<>> /\ Head(jobs) = Job("cont", w)

Popped == [Machine EXCEPT !.jobs = Tail(jobs)]

\* ------------------------------------------------------------------------
\* SchemaField.init, after its await
\* ------------------------------------------------------------------------
\* FieldAfterValid returning the value whatever isValid said
FieldAfterValid_NeverThrows(m, property) ==
  Notify([m EXCEPT !.fieldPc[property] = "returned"], Waiter("cb", property))

\* after `await this.isValid(value)`: throw, or return the value
FieldAfterValid(m, property) ==
  Notify([m EXCEPT !.fieldPc[property] =
                     IF isValid(FieldOf(property), m.fieldRet[property])
                     THEN "returned" ELSE "threw"],
         Waiter("cb", property))

\* FieldAfterDefault returning the result without storing it in the holder
FieldAfterDefault_NotStored(m, ref, property) ==
  LET made == FieldOf(property)._default.value
  IN Notify([m EXCEPT !.fieldPc[property] = "returned",
                      !.fieldRet[property] = made],
            Waiter("cb", property))

\* after `await this._default()`: store the result in the holder, return it
FieldAfterDefault(m, ref, property) ==
  LET made == FieldOf(property)._default.value
  IN Notify([m EXCEPT !.heap[ref] = Put(@, property, made),
                      !.fieldPc[property] = "returned",
                      !.fieldRet[property] = made],
            Waiter("cb", property))

FieldInitResume(property) ==
  /\ Resumes(Waiter("field", property))
  /\ IF fieldPc[property] = "awaitValid"
     THEN /\ Commit(FieldAfterValid(Popped, property))
          /\ fieldErr' = IF isValid(FieldOf(property), fieldRet[property]) THEN fieldErr
                         ELSE [fieldErr EXCEPT ![property] =
                                 Invalid(fieldRet[property], FieldOf(property)._name)]
     ELSE /\ fieldPc[property] = "awaitDefault"
          /\ producer[property] \in {"none", "fulfilled"}
          /\ Commit(FieldAfterDefault(Popped, "arg", property))
          /\ UNCHANGED fieldErr
  /\ UNCHANGED <<schema, awaitTicks, given, rawProperties, all, op, outerPc, result,
                 unhandled, queryVars, extVars>>

\* the promise a producer default returned is fulfilled (by a job of the
\* producer's own, or by a timer or I/O event)
ProducerSettle(property) ==
  /\ producer[property] = "pending"
  /\ Commit(Notify([Machine EXCEPT !.producer[property] = "fulfilled"],
                   Waiter("field", property)))
  /\ UNCHANGED <<schema, awaitTicks, given, rawProperties, fieldErr, all, op, outerPc,
                 result, unhandled, queryVars, extVars>>

\* ------------------------------------------------------------------------
\* SchemaField.init called by application code, and called again on the same
\* holder once the earlier call has settled
\* ------------------------------------------------------------------------
CallFieldInit(holder, property) ==
  /\ op \in {"none", "field"}
  /\ inits < MaxInits
  /\ \/ inits = 0
     \/ /\ holder = heap.arg
        /\ property = target
        /\ FieldSettled(Machine, property)
        /\ jobs = <<>>
  /\ op' = "field"
  /\ inits' = inits + 1
  /\ target' = property
  /\ given' = holder
  /\ callsBefore' = calls[property]
  /\ first' = IF inits = 1
              THEN [lacking |-> ~Has(given, property), pc |-> fieldPc[property],
                    ret |-> fieldRet[property], calls |-> calls[property]]
              ELSE first
  /\ fieldErr' = [fieldErr EXCEPT ![property] = NoError]
  /\ Commit(FieldInitStart([Machine EXCEPT !.heap.arg = holder,
                                           !.producer[property] = "none"],
                           "arg", property))
  /\ UNCHANGED <<schema, awaitTicks, rawProperties, all, outerPc, result, unhandled,
                 queryVars, modelVars, ctorVars, proxyVars, mongoVars>>

\* ------------------------------------------------------------------------
\* Schema.init: a forEach callback after `await ...init(rawObject, property)`
\* ------------------------------------------------------------------------
Consume(rawProps, property) ==
  LET rawPropertyIndex == IndexOf(rawProps, property)
  IN IF rawPropertyIndex > UNDEFINED_INDEX THEN Splice1(rawProps, rawPropertyIndex)
     ELSE rawProps

InitCallbackResume(property) ==
  /\ op = "init"
  /\ Resumes(Waiter("cb", property))
  /\ IF fieldPc[property] = "threw"
     THEN \* the callback's promise rejects; forEach dropped that promise
          /\ Commit([Popped EXCEPT !.cbPc[property] = "threw"])
          /\ unhandled' = unhandled \cup {fieldErr[property]}
          /\ UNCHANGED rawProperties
     ELSE /\ Commit([Popped EXCEPT !.cbPc[property] = "returned"])
          /\ rawProperties' = Consume(rawProperties, property)
          /\ UNCHANGED unhandled
  /\ UNCHANGED <<schema, awaitTicks, given, fieldErr, all, op, outerPc, result, queryVars, extVars>>

\* InitFinish with the erase loop stopping after the first unconsumed key
InitFinish_ErasesFirstOnly(policy, rawProps, rawObject) ==
  IF Len(rawProps) > 0 /\ policy # KEEP
  THEN IF policy = ERROR
       THEN [result |-> Rejected(UndefinedProperty(rawProps[1])), object |-> rawObject]
       ELSE [result |-> Fulfilled("arg"), object |-> Delete(rawObject, rawProps[1])]
  ELSE [result |-> Fulfilled("arg"), object |-> rawObject]

\* InitFinish without the test for the KEEP policy
InitFinish_IgnoresKeep(policy, rawProps, rawObject) ==
  IF Len(rawProps) > 0
  THEN IF policy = ERROR
       THEN [result |-> Rejected(UndefinedProperty(rawProps[1])), object |-> rawObject]
       ELSE [result |-> Fulfilled("arg"), object |-> DeleteAll(rawObject, rawProps)]
  ELSE [result |-> Fulfilled("arg"), object |-> rawObject]

\* Schema.init after `await this.properties.forEach(...)`
InitFinish(policy, rawProps, rawObject) ==
  IF Len(rawProps) > 0 /\ policy # KEEP
  THEN IF policy = ERROR
       THEN [result |-> Rejected(UndefinedProperty(rawProps[1])), object |-> rawObject]
       ELSE [result |-> Fulfilled("arg"), object |-> DeleteAll(rawObject, rawProps)]
  ELSE [result |-> Fulfilled("arg"), object |-> rawObject]

InitResume ==
  /\ op = "init"
  /\ Resumes(Outer)
  /\ LET fin == InitFinish(schema.undefinedPropertyPolicy, rawProperties, heap.arg)
     IN /\ result' = fin.result
        /\ heap' = [heap EXCEPT !.arg = fin.object]
  /\ jobs' = Tail(jobs)
  /\ outerPc' = "done"
  /\ UNCHANGED <<schema, awaitTicks, given, rawProperties, fieldPc, fieldRet, fieldErr,
                 cbPc, producer, calls, all, op, registered, unhandled, queryVars, extVars>>

\* ------------------------------------------------------------------------
\* Schema.initInstance: a map callback after its await, the reactions of
\* Promise.all, and the body after `await Promise.all(initAllFields)`
\* ------------------------------------------------------------------------
\* InstanceCallbackAfter writing the field into the model object
InstanceCallbackAfter_StoresInModel(m, property) ==
  Notify(IF m.fieldPc[property] = "threw"
         THEN [m EXCEPT !.cbPc[property] = "threw"]
         ELSE [m EXCEPT !.heap.arg = Put(@, property, m.fieldRet[property]),
                        !.cbPc[property] = "returned"],
         Waiter("all", property))

InstanceCallbackAfter(m, property) ==
  Notify(IF m.fieldPc[property] = "threw"
         THEN [m EXCEPT !.cbPc[property] = "threw"]
         ELSE [m EXCEPT !.heap.new = Put(@, property, m.fieldRet[property]),
                        !.cbPc[property] = "returned"],
         Waiter("all", property))

InitInstanceCallbackResume(property) ==
  /\ op = "initInstance"
  /\ Resumes(Waiter("cb", property))
  /\ Commit(InstanceCallbackAfter(Popped, property))
  /\ UNCHANGED <<schema, awaitTicks, given, rawProperties, fieldErr, all, op, outerPc,
                 result, unhandled, queryVars, extVars>>

\* AllElement counting a rejected element as a finished one
AllElement_IgnoresRejection(a, threw, e) ==
  IF a.status = "pending" /\ a.remaining = 1
  THEN [a EXCEPT !.status = "fulfilled", !.remaining = 0]
  ELSE [a EXCEPT !.remaining = @ - 1]

\* Promise.all's reaction to one element: the first rejection rejects the
\* whole, the last fulfilment fulfils it
AllElement(a, threw, e) ==
  IF threw
  THEN IF a.status = "pending" THEN [a EXCEPT !.status = "rejected", !.error = e] ELSE a
  ELSE IF a.status = "pending" /\ a.remaining = 1
       THEN [a EXCEPT !.status = "fulfilled", !.remaining = 0]
       ELSE [a EXCEPT !.remaining = @ - 1]

AllReaction(property) ==
  /\ Resumes(Waiter("all", property))
  /\ all' = AllElement(all, cbPc[property] = "threw", fieldErr[property])
  /\ Commit(IF all.status = "pending" /\ all'.status # "pending"
            THEN Notify(Popped, Outer) ELSE Popped)
  /\ UNCHANGED <<schema, awaitTicks, given, rawProperties, fieldErr, op, outerPc, result,
                 unhandled, queryVars, extVars>>

InstanceFinish(a) ==
  IF a.status = "rejected" THEN Rejected(a.error) ELSE Fulfilled("new")

InitInstanceResume ==
  /\ op = "initInstance"
  /\ Resumes(Outer)
  /\ result' = InstanceFinish(all)
  /\ jobs' = Tail(jobs)
  /\ outerPc' = "done"
  /\ UNCHANGED <<schema, awaitTicks, heap, given, rawProperties, fieldPc, fieldRet,
                 fieldErr, cbPc, producer, calls, all, op, registered, unhandled,
                 queryVars, extVars>>

\* ------------------------------------------------------------------------
\* The operation builder, handleQueryOperator({context, query}, operator, value)
\* ------------------------------------------------------------------------
Falsy(v) == v \in {NULL, UNDEF, ""}

Contexts == {NULL, UNDEF, "", "firstName", "role"}

Operators == {"EQUAL", "IS_IN"}

Operands == {"Guillaume"}

InvalidContext == [msg |-> "InvalidContext", value |-> UNDEF, field |-> UNDEF]

\* the entry appended is a promise already resolved with the descriptor
Operation(context, operator, value) ==
  [context |-> context, operator |-> operator, value |-> value]

\* handleQueryOperator appending before it tests the context
handleQueryOperator_AppendsAnyway(q, context, operator, value) ==
  [thrown |-> IF Falsy(context) THEN InvalidContext ELSE NoError,
   query |-> Append(q, Operation(context, operator, value)),
   handle |-> IF Falsy(context) THEN NoHandle
              ELSE [context |-> context,
                    query |-> Append(q, Operation(context, operator, value))]]

\* it throws, or appends one entry and returns the {context, query} handle
handleQueryOperator(q, context, operator, value) ==
  IF Falsy(context)
  THEN [thrown |-> InvalidContext, query |-> q, handle |-> NoHandle]
  ELSE LET appended == Append(q, Operation(context, operator, value))
       IN [thrown |-> NoError, query |-> appended,
           handle |-> [context |-> context, query |-> appended]]

\* one call, made directly (op = NoOp) or through a declared operator
Invoke(context, operator, value, declared) ==
  /\ Falsy(context) \/ Len(query) < MaxQuery
  /\ LET r == handleQueryOperator(query, context, operator, value)
     IN /\ query' = r.query
        /\ thrown' = r.thrown
        /\ handle' = r.handle
  /\ lastCall' = Operation(context, operator, value)
  /\ invoked' = IF Falsy(context) THEN invoked
                ELSE Append(invoked, Operation(context, operator, value))
  /\ lastOp' = declared
  /\ UNCHANGED <<schema, awaitTicks, schemaVars, extVars, completed, join>>

HandleQueryOperator(context, operator, value) == Invoke(context, operator, value, NoOp)

\* ------------------------------------------------------------------------
\* SchemaField.getQueryOperations(query, additionalOperations)
\* ------------------------------------------------------------------------
SET == "SET"

FIELDS_UPDATE == "UPDATE"

SCHEMA_FIELDS_OPERATIONS == <<"IS", "IS_NOT", "IS_IN", "IS_NOT_IN">>

AdditionalOperations == {<<>>, <<"GREATER_THAN">>}

\* reading a property of a field object: undefined when it has no such property
Prop(f, name) == IF name \in DOMAIN f THEN f[name] ELSE UNDEF

\* declareOperation({query, operation, field, key}): what the callable is bound to
declareOperation(operation, field, key) ==
  [operation |-> operation, field |-> field, key |-> key]

getQueryOperations(f, additionalOperations) ==
  LET operations == SCHEMA_FIELDS_OPERATIONS \o additionalOperations
      listed == {operations[i] : i \in 1..Len(operations)}
  IN [o \in {SET} \cup listed |->
        IF o \in listed THEN declareOperation(o, UNDEF, Prop(f, "_name"))
        ELSE declareOperation(SET, FIELDS_UPDATE, Prop(f, "name"))]

\* a declared operator of a field is invoked with a value
OperatorInvoke(property, additionalOperations, operation, value) ==
  LET resultQueryOperations == getQueryOperations(FieldOf(property), additionalOperations)
  IN /\ operation \in DOMAIN resultQueryOperations
     /\ Invoke(resultQueryOperations[operation].key, operation, value,
               [field |-> property, operation |-> operation])

\* the deferred value of the i-th entry becomes available
OperationResolve(i) ==
  /\ i \in 1..Len(query)
  /\ \A k \in 1..Len(completed) : completed[k] # i
  /\ completed' = Append(completed, i)
  /\ UNCHANGED <<schema, awaitTicks, schemaVars, extVars, query, thrown, lastCall, handle,
                 invoked, join, lastOp>>

\* the consumer joins the list as it is now: Promise.all(query)
JoinStart(q) ==
  [status |-> IF q = <<>> THEN "fulfilled" ELSE "pending", n |-> Len(q),
   remaining |-> Len(q), values |-> [i \in 1..Len(q) |-> NoArgs]]

JoinCall ==
  /\ join.status = "none"
  /\ join' = JoinStart(query)
  /\ UNCHANGED <<schema, awaitTicks, schemaVars, extVars, query, thrown, lastCall, handle,
                 invoked, completed, lastOp>>

\* JoinCollect keeping the results in the order they arrive
JoinCollect_CompletionOrder(j, i, v) ==
  [j EXCEPT !.values[j.n - j.remaining + 1] = v,
            !.remaining = @ - 1,
            !.status = IF j.remaining = 1 THEN "fulfilled" ELSE @]

\* Promise.all's reaction to its i-th element: the result goes to index i
JoinCollect(j, i, v) ==
  [j EXCEPT !.values[i] = v,
            !.remaining = @ - 1,
            !.status = IF j.remaining = 1 THEN "fulfilled" ELSE @]

JoinElement(i) ==
  /\ join.status = "pending"
  /\ i \in 1..join.n
  /\ \E k \in 1..Len(completed) : completed[k] = i
  /\ join.values[i] = NoArgs
  /\ join' = JoinCollect(join, i, query[i])
  /\ UNCHANGED <<schema, awaitTicks, schemaVars, extVars, query, thrown, lastCall, handle,
                 invoked, completed, lastOp>>

\* ------------------------------------------------------------------------
\* BaseModel. An instance is its IS_NEW flag, its LIST_UPDATED_FIELDS array
\* (both kept under symbol keys) and its own string-keyed properties; the
\* application holds the Proxy the constructor returns, so every assignment
\* to it goes through BaseModel.set.
\* ------------------------------------------------------------------------
IS_NEW == "Symbol(isNew)"

LIST_UPDATED_FIELDS == "Symbol(listUpdatedFields)"

Symbols == {IS_NEW, LIST_UPDATED_FIELDS}

IsSymbol(property) == property \in Symbols

Model == [isNew |-> isNew, listUpdatedFields |-> listUpdatedFields, own |-> instance]

\* this[property] = value on the target of the proxy
Store(m, property, value) ==
  CASE property = IS_NEW -> [m EXCEPT !.isNew = value]
    [] property = LIST_UPDATED_FIELDS -> [m EXCEPT !.listUpdatedFields = value]
    [] OTHER -> [m EXCEPT !.own = Put(@, property, value)]

\* BaseModel.set(property, value), the set trap of the proxy
set(m, property, value) ==
  Store(IF ~IsSymbol(property)
        THEN [m EXCEPT !.listUpdatedFields = Append(@, property)]
        ELSE m,
        property, value)

RECURSIVE AssignAll(_, _, _)
AssignAll(m, rawInstance, properties) ==
  IF properties = <<>> THEN m
  ELSE AssignAll(set(m, Head(properties), Get(rawInstance, Head(properties))),
                 rawInstance, Tail(properties))

\* new BaseModel(rawInstance)
BaseModelNew(rawInstance) ==
  AssignAll([isNew |-> TRUE, listUpdatedFields |-> <<>>, own |-> <<>>],
            rawInstance, ObjKeys(rawInstance))

\* BaseModel.instantiate(rawObject)
instantiate(rawObject) == set(BaseModelNew(rawObject), IS_NEW, FALSE)

CommitModel(m) ==
  /\ isNew' = m.isNew
  /\ listUpdatedFields' = m.listUpdatedFields
  /\ instance' = m.own

Construct(rawInstance) ==
  /\ modelPc = "none"
  /\ modelPc' = "new"
  /\ CommitModel(BaseModelNew(rawInstance))
  /\ assigned' = KeySet(rawInstance)
  /\ UNCHANGED <<schema, awaitTicks, schemaVars, queryVars, fieldVars, saves,
                 connectorCalls, removes, ctorVars, proxyVars, mongoVars>>

Instantiate(rawObject) ==
  /\ modelPc = "none"
  /\ modelPc' = "loaded"
  /\ CommitModel(instantiate(rawObject))
  /\ assigned' = {}
  /\ UNCHANGED <<schema, awaitTicks, schemaVars, queryVars, fieldVars, saves,
                 connectorCalls, removes, ctorVars, proxyVars, mongoVars>>

\* instance[property] = value, by the application
Assign(property, value) ==
  /\ modelPc # "none"
  /\ Len(listUpdatedFields) < MaxDirty
  /\ CommitModel(set(Model, property, value))
  /\ assigned' = assigned \cup {property}
  /\ UNCHANGED <<schema, awaitTicks, schemaVars, queryVars, fieldVars, modelPc, saves,
                 connectorCalls, removes, ctorVars, proxyVars, mongoVars>>

\* the error a connector call fails with
ConnectorError == [msg |-> "ConnectorError", value |-> UNDEF, field |-> UNDEF]

\* the query on the primary key that the connector's model class builds
getQueryPrimary(m) == << <<"_id", "id1">> >>

\* the reduce of save: one key per entry of LIST_UPDATED_FIELDS, with the
\* instance's value for it
RECURSIVE Reduce(_, _, _)
Reduce(m, finalUpdate, properties) ==
  IF properties = <<>> THEN finalUpdate
  ELSE Reduce(m, Put(finalUpdate, Head(properties), Get(m.own, Head(properties))),
              Tail(properties))

Undefined == [defined |-> FALSE, obj |-> <<>>]

\* const { name } = arg
Destructure(arg, name) ==
  IF Has(arg, name) THEN [defined |-> TRUE, obj |-> Get(arg, name)] ELSE Undefined

\* a call of a connector method with the arguments args, and what its
\* parameters are bound to: create(docs), updateOne({ query, update })
ConnectorCall(method, args) ==
  [method |-> method, args |-> args,
   query |-> IF method = "updateOne" THEN Destructure(args[1], "query") ELSE Undefined,
   update |-> IF method = "updateOne" THEN Destructure(args[1], "update") ELSE Undefined]

\* save that calls updateOne for any instance that is not new
saveStart_AlwaysUpdates(m) ==
  IF m.isNew
  THEN [kind |-> "create", calls |-> << ConnectorCall("create", << m.own >>) >>]
  ELSE [kind |-> "update",
        calls |-> << ConnectorCall("updateOne",
                                   << getQueryPrimary(m),
                                      Reduce(m, <<>>, m.listUpdatedFields) >>) >>]

\* BaseModel.save up to its await: the connector call it makes, if any
saveStart(m) ==
  IF m.isNew
  THEN [kind |-> "create", calls |-> << ConnectorCall("create", << m.own >>) >>]
  ELSE IF Len(m.listUpdatedFields) = 0
  THEN [kind |-> "none", calls |-> <<>>]
  ELSE LET primary == getQueryPrimary(m)
           update == Reduce(m, <<>>, m.listUpdatedFields)
       IN [kind |-> "update",
           calls |-> << ConnectorCall("updateOne", << primary, update >>) >>]

\* save that leaves the dirty list to the assignments made since it was called
saveAfter_KeepsList(m, kind, ok) ==
  IF ok /\ kind = "create" THEN set(m, IS_NEW, FALSE) ELSE m

\* save that marks the instance as stored whatever the connector answered
saveAfter_IgnoresFailure(m, kind, ok) ==
  IF kind = "create"
  THEN set(set(m, IS_NEW, FALSE), LIST_UPDATED_FIELDS, <<>>)
  ELSE set(m, LIST_UPDATED_FIELDS, <<>>)

\* BaseModel.save after its await: a rejection leaves the function at once
saveAfter(m, kind, ok) ==
  IF ~ok THEN m
  ELSE IF kind = "create"
  THEN set(set(m, IS_NEW, FALSE), LIST_UPDATED_FIELDS, <<>>)
  ELSE set(m, LIST_UPDATED_FIELDS, <<>>)

\* instance.save(), by the application
Save ==
  /\ modelPc # "none"
  /\ Len(saves) < MaxSaves
  /\ LET r == saveStart(Model)
     IN /\ saves' = Append(saves, [kind |-> r.kind,
                                   status |-> IF r.kind = "none" THEN "fulfilled"
                                              ELSE "pending",
                                   error |-> NoError])
        /\ connectorCalls' = connectorCalls \o r.calls
  /\ UNCHANGED <<schema, awaitTicks, schemaVars, queryVars, fieldVars, isNew,
                 listUpdatedFields, instance, modelPc, assigned, removes, ctorVars,
                 proxyVars, mongoVars>>

\* the connector call of the i-th save settles and the save resumes
SaveResume(i, ok) ==
  /\ i \in DOMAIN saves
  /\ saves[i].status = "pending"
  /\ CommitModel(saveAfter(Model, saves[i].kind, ok))
  /\ saves' = [saves EXCEPT ![i].status = IF ok THEN "fulfilled" ELSE "rejected",
                            ![i].error = IF ok THEN NoError ELSE ConnectorError]
  /\ assigned' = IF ok THEN {} ELSE assigned
  /\ UNCHANGED <<schema, awaitTicks, schemaVars, queryVars, fieldVars, modelPc,
                 connectorCalls, removes, ctorVars, proxyVars, mongoVars>>

\* new Error('Can not remove an unsaved instance')
UnsavedInstance == [msg |-> "UnsavedInstance", value |-> UNDEF, field |-> UNDEF]

\* remove that asks the connector whatever the IS_NEW flag says
remove_IgnoresNew(m) ==
  [status |-> "connector", error |-> NoError,
   calls |-> << ConnectorCall("removeOne", << getQueryPrimary(m) >>) >>]

\* BaseModel.remove: the promise it returns and the connector call it makes
remove(m) ==
  IF m.isNew
  THEN [status |-> "rejected", error |-> UnsavedInstance, calls |-> <<>>]
  ELSE LET primary == getQueryPrimary(m)
       IN [status |-> "connector", error |-> NoError,
           calls |-> << ConnectorCall("removeOne", << primary >>) >>]

\* instance.remove(), by the application
Remove ==
  /\ modelPc # "none"
  /\ Len(removes) < MaxRemoves
  /\ LET r == remove(Model)
     IN /\ removes' = Append(removes, [status |-> r.status, error |-> r.error])
        /\ connectorCalls' = connectorCalls \o r.calls
  /\ UNCHANGED <<schema, awaitTicks, schemaVars, queryVars, fieldVars, isNew,
                 listUpdatedFields, instance, modelPc, assigned, saves, ctorVars,
                 proxyVars, mongoVars>>

\* ------------------------------------------------------------------------
\* Schemas over SchemaField objects held by reference: a definition maps
\* each key to the reference of the object given for it
\* ------------------------------------------------------------------------
\* the forEach of the constructor: this.definition[property]._name = property
RECURSIVE NameObjects(_, _, _)
NameObjects(objs, definition, properties) ==
  IF properties = <<>> THEN objs
  ELSE NameObjects([objs EXCEPT ![Get(definition, Head(properties))]._name =
                                  Head(properties)],
                   definition, Tail(properties))

\* new SchemaField(), by the application
NewField ==
  /\ Len(fieldObjs) < MaxFieldObjs
  /\ fieldObjs' = Append(fieldObjs, SchemaFieldNew("base"))
  /\ UNCHANGED <<schema, awaitTicks, schemaVars, queryVars, fieldVars, modelVars,
                 schemas, proxyVars, mongoVars>>

\* new Schema(schemaDefinition), by the application
ConstructSchema(schemaDefinition) ==
  /\ Len(schemas) < MaxSchemas
  /\ fieldObjs' = NameObjects(fieldObjs, schemaDefinition, ObjKeys(schemaDefinition))
  /\ schemas' = Append(schemas, [definition |-> schemaDefinition,
                                 properties |-> ObjKeys(schemaDefinition)])
  /\ UNCHANGED <<schema, awaitTicks, schemaVars, queryVars, fieldVars, modelVars,
                 proxyVars, mongoVars>>

\* ------------------------------------------------------------------------
\* Schema.getProxy: the set handler of the proxy configuration
\* ------------------------------------------------------------------------
DoesNotExist(property) == [msg |-> "DoesNotExist", value |-> UNDEF, field |-> property]

\* this.properties.includes(property)
Includes(properties, property) == IndexOf(properties, property) # UNDEFINED_INDEX

\* the set handler storing the value under any key the schema does not declare
getProxy_set_StoresUndeclared(s, inst, property, value) ==
  IF ~Includes(s.properties, property)
  THEN [instance |-> Put(inst, property, value),
        ret |-> [returned |-> "true", error |-> NoError]]
  ELSE [instance |-> Put(inst, property, castValue(Get(s.definition, property), value)),
        ret |-> [returned |-> "true", error |-> NoError]]

\* set: (instance, property, value) => ...
getProxy_set(s, inst, property, value) ==
  IF ~Includes(s.properties, property)
  THEN IF IsSymbol(property)
       THEN [instance |-> Put(inst, property, value),
             ret |-> [returned |-> "true", error |-> NoError]]
       ELSE [instance |-> inst,
             ret |-> [returned |-> "Error", error |-> DoesNotExist(property)]]
  ELSE [instance |-> Put(inst, property, castValue(Get(s.definition, property), value)),
        ret |-> [returned |-> "true", error |-> NoError]]

\* proxy[property] = value, by the application
ProxyAssign(property, value) ==
  /\ LET r == getProxy_set(schema, proxied, property, value)
     IN /\ proxied' = r.instance
        /\ setReturn' = r.ret
  /\ lastSet' = [property |-> property, value |-> value, before |-> proxied]
  /\ UNCHANGED <<schema, awaitTicks, schemaVars, queryVars, fieldVars, modelVars,
                 ctorVars, mongoVars>>

\* ------------------------------------------------------------------------
\* MongoConnector: getCollection and the operations that await it
\* ------------------------------------------------------------------------
Methods ==
  {"create", "find", "findOne", "count", "update", "updateOne", "remove", "removeOne",
   "stream"}

\* the errors db.collection and the driver's calls fail with
LookupErrors ==
  { [msg |-> "LookupFailed", value |-> UNDEF, field |-> UNDEF],
    [msg |-> "NoSuchCollection", value |-> UNDEF, field |-> UNDEF] }

DriverError == [msg |-> "DriverError", value |-> UNDEF, field |-> UNDEF]

\* getCollection that looks the collection up again once a lookup has failed
getCollection_RetriesFailure(c) ==
  IF c.collection.status \in {"pending", "fulfilled"} THEN c
  ELSE [collection |-> [status |-> "pending", error |-> NoError],
        lookups |-> c.lookups + 1]

\* getCollection: the memoised promise, made by the first call, whose
\* executor invokes db.collection
getCollection(c) ==
  IF c.collection.status # "unset" THEN c
  ELSE [collection |-> [status |-> "pending", error |-> NoError],
        lookups |-> c.lookups + 1]

\* connector[method](...), up to `await this.getCollection()`
ConnectorOp(method) ==
  /\ Len(ops) < MaxOps
  /\ LET c == getCollection([collection |-> collection, lookups |-> lookups])
     IN /\ collection' = c.collection
        /\ lookups' = c.lookups
  /\ ops' = Append(ops, [method |-> method, seen |-> collection.status,
                         status |-> "await", error |-> NoError])
  /\ UNCHANGED <<schema, awaitTicks, schemaVars, queryVars, fieldVars, modelVars,
                 ctorVars, proxyVars>>

\* the callback db.collection was given is called, with an error or with
\* the collection
LookupSettle(ok, err) ==
  /\ collection.status = "pending"
  /\ collection' = IF ok THEN [status |-> "fulfilled", error |-> NoError]
                   ELSE [status |-> "rejected", error |-> err]
  /\ UNCHANGED <<schema, awaitTicks, schemaVars, queryVars, fieldVars, modelVars,
                 ctorVars, proxyVars, lookups, ops>>

\* an operation after `await this.getCollection()`: the rejection of the
\* promise leaves the operation with its error, otherwise the operation
\* returns what the driver's call answers
ConnectorOpResume(i, ok) ==
  /\ i \in DOMAIN ops
  /\ ops[i].status = "await"
  /\ collection.status \in {"fulfilled", "rejected"}
  /\ ops' = [ops EXCEPT ![i].status = IF collection.status = "fulfilled" /\ ok
                                     THEN "fulfilled" ELSE "rejected",
                        ![i].error = IF collection.status = "rejected"
                                     THEN collection.error
                                     ELSE IF ok THEN NoError ELSE DriverError]
  /\ UNCHANGED <<schema, awaitTicks, schemaVars, queryVars, fieldVars, modelVars,
                 ctorVars, proxyVars, collection, lookups>>

\* ------------------------------------------------------------------------
\* Specifications
\* ------------------------------------------------------------------------
Jobs ==
  \/ ThenableJob
  \/ ReactJob
  \/ \E p \in Properties : FieldInitResume(p)
  \/ \E p \in Properties : ProducerSettle(p)

\* Schema.init on one raw object
NextInit ==
  \/ \E rawObject \in RawObjects : CallInit(rawObject)
  \/ Jobs
  \/ \E p \in Properties : InitCallbackResume(p)
  \/ InitResume

SpecInit == Init /\ [][NextInit]_vars

\* Schema.initInstance on one model object
NextInstance ==
  \/ \E modelInstance \in RawObjects : CallInitInstance(modelInstance)
  \/ Jobs
  \/ \E p \in Properties : InitInstanceCallbackResume(p)
  \/ \E p \in Properties : AllReaction(p)
  \/ InitInstanceResume

SpecInstance == Init /\ [][NextInstance]_vars

\* operator invocations against one query
InitQuery ==
  /\ schema = SchemaNew(<< <<"name", SchemaFieldNew("base")>> >>, DEFAULT_OPTIONS)
  /\ awaitTicks = 1
  /\ NoCall
  /\ NoQuery
  /\ NoExt

NextQuery ==
  \/ \E c \in Contexts, o \in Operators, v \in Operands : HandleQueryOperator(c, o, v)
  \/ \E i \in 1..MaxQuery : OperationResolve(i)
  \/ JoinCall
  \/ \E i \in 1..MaxQuery : JoinElement(i)

SpecQuery == InitQuery /\ [][NextQuery]_vars

\* invocations of the operators a schema's fields declare, against one query
InitOperators ==
  /\ schema \in {SchemaNew(d, DEFAULT_OPTIONS) : d \in Definitions}
  /\ awaitTicks = 1
  /\ NoCall
  /\ NoQuery
  /\ NoExt

NextOperators ==
  \E p \in {schema.properties[i] : i \in 1..Len(schema.properties)},
     a \in AdditionalOperations,
     o \in {SET, "IS", "IS_NOT", "IS_IN", "IS_NOT_IN", "GREATER_THAN"},
     v \in Operands : OperatorInvoke(p, a, o, v)

SpecOperators == InitOperators /\ [][NextOperators]_vars

\* SchemaField.init called directly, twice in a row on one holder
DirectFieldTypes ==
  FieldTypes \cup
    { default(SchemaFieldNew("typed"), Literal("bad")),
      default(SchemaFieldNew("base"), Literal(UNDEF)),
      default(SchemaFieldNew("base"), Producer(UNDEF, "sync")),
      default(SchemaFieldNew("typed"), Producer("bad", "resolved")) }

InitField ==
  /\ schema \in {SchemaNew(<< <<FieldOrder[1], ft>> >>, DEFAULT_OPTIONS) :
                    ft \in DirectFieldTypes}
  /\ awaitTicks \in {1, 3}
  /\ NoCall
  /\ NoQuery
  /\ NoExt

NextField ==
  \/ \E holder \in RawObjects \cup {heap.arg} :
       CallFieldInit(holder, schema.properties[1])
  \/ Jobs

SpecField == InitField /\ [][NextField]_vars

\* one model instance: built or loaded, assigned to, saved
AssignedValues == {"bad"}

\* the raw objects an instance is built or loaded from
ModelObjects == {o \in RawObjects : \A i \in 1..Len(o) : o[i][2] = "Ann"}

InitModel ==
  /\ schema = SchemaNew(<< <<"name", SchemaFieldNew("base")>> >>, DEFAULT_OPTIONS)
  /\ awaitTicks = 1
  /\ NoCall
  /\ NoQuery
  /\ NoExt

NextModel ==
  \/ \E rawInstance \in ModelObjects : Construct(rawInstance)
  \/ \E rawObject \in ModelObjects : Instantiate(rawObject)
  \/ \E p \in Keys, v \in AssignedValues : Assign(p, v)
  \/ Save
  \/ \E i \in 1..MaxSaves, ok \in BOOLEAN : SaveResume(i, ok)

SpecModel == InitModel /\ [][NextModel]_vars

\* one model instance: built or loaded, saved, removed
NextRemove ==
  \/ \E rawInstance \in ModelObjects : Construct(rawInstance)
  \/ \E rawObject \in ModelObjects : Instantiate(rawObject)
  \/ Save
  \/ \E i \in 1..MaxSaves, ok \in BOOLEAN : SaveResume(i, ok)
  \/ Remove

SpecRemove == InitModel /\ [][NextRemove]_vars

\* schemas constructed over the application's SchemaField objects
RefDefinitions ==
  UNION { { [i \in 1..Len(ks) |-> <<ks[i], refs[i]>>] :
              refs \in [1..Len(ks) -> DOMAIN fieldObjs] }
          : ks \in {k \in KeySeqs : k # <<>>} }

InitSchemas ==
  /\ schema = SchemaNew(<< <<"name", SchemaFieldNew("base")>> >>, DEFAULT_OPTIONS)
  /\ awaitTicks = 1
  /\ NoCall
  /\ NoQuery
  /\ NoExt

NextSchemas ==
  \/ NewField
  \/ \E d \in RefDefinitions : ConstructSchema(d)

SpecSchemas == InitSchemas /\ [][NextSchemas]_vars

\* assignments through the proxy of one schema
ProxyDefinitions ==
  UNION { { [i \in 1..n |-> <<FieldOrder[i], fts[i]>>] :
              fts \in [1..n -> {SchemaFieldNew("base"),
                                required(SchemaFieldNew("typed"), TRUE)}] }
          : n \in 1..NumFields }

InitProxy ==
  /\ schema \in {SchemaNew(d, DEFAULT_OPTIONS) : d \in ProxyDefinitions}
  /\ awaitTicks = 1
  /\ NoCall
  /\ NoQuery
  /\ NoExt

NextProxy ==
  \E p \in Keys \cup {IS_NEW}, v \in {"Ann", "bad"} : ProxyAssign(p, v)

SpecProxy == InitProxy /\ [][NextProxy]_vars

\* operations on one MongoConnector
NextConnector ==
  \/ \E method \in Methods : ConnectorOp(method)
  \/ \E ok \in BOOLEAN, err \in LookupErrors : LookupSettle(ok, err)
  \/ \E i \in 1..MaxOps, ok \in BOOLEAN : ConnectorOpResume(i, ok)

SpecConnector == InitModel /\ [][NextConnector]_vars

Next == NextInit \/ NextInstance \/ NextQuery \/ NextOperators \/ NextField \/ NextModel \/ NextRemove \/ NextSchemas \/ NextProxy \/ NextConnector

Spec == Init /\ [][Next]_vars

\* ------------------------------------------------------------------------
\* Properties
\* ------------------------------------------------------------------------
Declared == {schema.properties[i] : i \in 1..Len(schema.properties)}

Policy == schema.undefinedPropertyPolicy

Undeclared(o) == KeySet(o) \ Declared

InitResolved == op = "init" /\ result.status = "fulfilled"

\* what SchemaField.init is to produce for a property of the object given
Expected(property) ==
  IF Get(given, property) # UNDEF THEN Get(given, property)
  ELSE FieldOf(property)._default.value

\* C1: when Schema.init resolves on a raw object whose keys are all declared,
\* every declared field given with a valid value still holds that value and
\* every declared field that was absent and has a literal default holds the
\* default, under every policy.
C1_InitNormalizes ==
  (InitResolved /\ KeySet(given) \subseteq Declared) =>
    \A p \in Declared :
      /\ (Get(given, p) # UNDEF /\ isValid(FieldOf(p), Get(given, p)))
           => Get(heap.arg, p) = Get(given, p)
      /\ (~Has(given, p) /\ ~FieldOf(p)._default.fn)
           => Get(heap.arg, p) = FieldOf(p)._default.value

\* C2: under ERASE, and under the policy of a Schema built without options,
\* once Schema.init has resolved the raw object has no key outside the
\* declared fields.
C2_EraseLeavesOnlyDeclared ==
  (InitResolved /\ Policy \in {ERASE, UNDEF}) => KeySet(heap.arg) \subseteq Declared

C2_Witness ==
  /\ InitResolved
  /\ Policy = UNDEF
  /\ Cardinality(Undeclared(given)) = 2

\* the first key of the object given, in own-key order, that is not declared
FirstUndeclared ==
  LET ks == ObjKeys(given)
  IN ks[CHOOSE i \in 1..Len(ks) :
          ks[i] \notin Declared /\ \A j \in 1..(i - 1) : ks[j] \in Declared]

\* C3: under ERROR, Schema.init rejects exactly when the raw object has an
\* undeclared key, and the error names the first undeclared key in the raw
\* object's key order.
C3_ErrorIffUndeclared ==
  (op = "init" /\ outerPc = "done" /\ Policy = ERROR) =>
    /\ result.status = "rejected" <=> Undeclared(given) # {}
    /\ result.status = "rejected" => result.error = UndefinedProperty(FirstUndeclared)

\* C4: under KEEP, Schema.init leaves every undeclared key of the raw object
\* in place with its original value, does not reject, and returns the object
\* it was given.
C4_KeepLeavesUndeclared ==
  (op = "init" /\ Policy = KEEP) =>
    /\ \A k \in Undeclared(given) : Has(heap.arg, k) /\ Get(heap.arg, k) = Get(given, k)
    /\ result.status # "rejected"
    /\ outerPc = "done" => result = Fulfilled("arg")

C4_Witness ==
  /\ op = "init"
  /\ Policy = KEEP
  /\ outerPc = "done"
  /\ Undeclared(given) # {}
  /\ jobs = <<>>

\* C5: when the isValid check of a declared field has failed, Schema.init
\* has not resolved with the raw object: its promise rejects with a failed
\* field's error.
C5_InitRejectsInvalid ==
  (op = "init" /\ outerPc = "done" /\ \E p \in Declared : fieldPc[p] = "threw") =>
    /\ result.status = "rejected"
    /\ \E p \in Declared : fieldPc[p] = "threw" /\ result.error = fieldErr[p]

\* C6: when Schema.init resolves, the result of every asynchronous producer
\* default of an absent declared field is stored under the field's key.
C6_AsyncDefaultStored ==
  InitResolved =>
    \A p \in Declared :
      (~Has(given, p) /\ FieldOf(p)._default.fn
         /\ FieldOf(p)._default.settle \in {"resolved", "pending"})
        => Get(heap.arg, p) = FieldOf(p)._default.value

\* C7: Schema.initInstance never changes the model object it is given.
C7_InitInstancePure == op = "initInstance" => heap.arg = given

\* C8: when Schema.initInstance resolves, it returns a new object whose keys
\* are exactly the declared fields, each holding the value given for it or,
\* when none was given, the field's default.
C8_InstanceHasDeclaredFields ==
  (op = "initInstance" /\ result.status = "fulfilled") =>
    /\ result.ref = "new"
    /\ KeySet(heap.new) = Declared
    /\ Len(heap.new) = Cardinality(Declared)
    /\ \A p \in Declared : Get(heap.new, p) = Expected(p)

C8_Witness ==
  /\ op = "initInstance"
  /\ result.status = "fulfilled"
  /\ Policy = ERROR
  /\ Undeclared(given) # {}
  /\ \E p \in Declared : ~Has(given, p)

\* C9: once a field's validation has failed during Schema.initInstance and
\* the job queue has drained, the promise is rejected with a failed field's
\* error; it is never fulfilled while a field has failed or is unfinished.
C9_InstanceRejectsInvalid ==
  op = "initInstance" =>
    /\ ((jobs = <<>> \/ outerPc = "done") /\ \E p \in Declared : fieldPc[p] = "threw")
         => /\ result.status = "rejected"
            /\ \E p \in Declared : fieldPc[p] = "threw" /\ result.error = fieldErr[p]
    /\ result.status = "fulfilled" => \A p \in Declared : cbPc[p] = "returned"

C9_Witness ==
  /\ op = "initInstance"
  /\ result.status = "rejected"
  /\ heap.new # <<>>
  /\ jobs = <<>>

\* C10: a handleQueryOperator call with a falsy context throws and leaves the
\* pending-operations list as it was.
C10_FalsyContextThrows ==
  [][(lastCall' # NoArgs /\ Falsy(lastCall'.context))
       => (thrown' = InvalidContext /\ query' = query)]_vars

C10_Witness ==
  /\ Falsy(lastCall.context)
  /\ thrown = InvalidContext
  /\ Len(query) = MaxQuery

\* C11: every call with a truthy context appends exactly one entry and
\* returns the {context, query} handle, and the joined list is, element by
\* element, the arguments of the calls in the order they were made, in
\* whatever order the entries completed.
C11_JoinKeepsOrder ==
  /\ query = invoked
  /\ (lastCall # NoArgs /\ thrown = NoError)
       => handle = [context |-> lastCall.context, query |-> query]
  /\ join.status = "fulfilled"
       => /\ Len(join.values) = join.n
          /\ \A i \in 1..join.n : join.values[i] = invoked[i]

C11_Witness ==
  /\ join.status = "fulfilled"
  /\ join.n = MaxQuery
  /\ completed[1] > completed[2]
  /\ invoked[1] # invoked[2]

\* C12: every operator getQueryOperations returns for a named field, SET
\* included, is declared with the field's name as key: a call through it
\* has the field name as context and does not throw.
C12_OperatorsKeyedByName ==
  lastOp # NoOp => (lastCall.context = lastOp.field /\ thrown = NoError)

\* ------------------------------------------------------------------------
\* SchemaField.init called directly
\* ------------------------------------------------------------------------
\* the latest direct call has settled
DirectSettled == op = "field" /\ inits >= 1 /\ FieldSettled(Machine, target) /\ jobs = <<>>

\* the first call found the key missing and a later call has settled
Repeated == DirectSettled /\ inits >= 2 /\ first.lacking

\* C13: for a field with a literal default D and a holder lacking the key,
\* init stores D under the key and returns D, and a second init on the
\* populated holder returns D again and leaves the holder unchanged; a
\* producer default is invoked once by the first init, not again by the second.
C13_DefaultIdempotent ==
  LET f == FieldOf(target)
      D == f._default.value
  IN /\ (DirectSettled /\ inits = 1 /\ ~Has(given, target) /\ ~f._default.fn) =>
          /\ fieldPc[target] = "returned"
          /\ fieldRet[target] = D
          /\ Has(heap.arg, target) /\ Get(heap.arg, target) = D
     /\ (Repeated /\ ~f._default.fn) =>
          /\ fieldPc[target] = "returned"
          /\ fieldRet[target] = D
          /\ heap.arg = given
     /\ (Repeated /\ f._default.fn) => first.calls = 1 /\ calls[target] = 1

\* C13 as amended: the same, for a literal default that the field's isValid
\* accepts and for a producer whose result is not undefined.
C13_DefaultIdempotentWhenValid ==
  LET f == FieldOf(target)
      D == f._default.value
  IN /\ (DirectSettled /\ inits = 1 /\ ~Has(given, target) /\ ~f._default.fn) =>
          /\ fieldPc[target] = "returned"
          /\ fieldRet[target] = D
          /\ Has(heap.arg, target) /\ Get(heap.arg, target) = D
     /\ (Repeated /\ ~f._default.fn /\ isValid(f, D)) =>
          /\ fieldPc[target] = "returned"
          /\ fieldRet[target] = D
          /\ heap.arg = given
     /\ (Repeated /\ f._default.fn /\ D # UNDEF) => first.calls = 1 /\ calls[target] = 1

C13_Witness ==
  /\ Repeated
  /\ FieldOf(target)._default = Producer("made", "pending")
  /\ fieldRet[target] = "made"
  /\ calls[target] = 1

\* C14: when the holder's value for the field is defined, init throws the
\* Invalid error naming the value and the field if isValid rejects it and
\* returns the value itself otherwise; the holder is not modified and the
\* default is not invoked.
C14_DefinedValueValidated ==
  LET f == FieldOf(target)
      value == Get(given, target)
  IN (DirectSettled /\ value # UNDEF) =>
       /\ IF isValid(f, value)
          THEN fieldPc[target] = "returned" /\ fieldRet[target] = value
          ELSE fieldPc[target] = "threw" /\ fieldErr[target] = Invalid(value, target)
       /\ heap.arg = given
       /\ calls[target] = callsBefore

C14_Witness ==
  /\ DirectSettled
  /\ Get(given, target) = "bad"
  /\ fieldPc[target] = "threw"
  /\ FieldOf(target)._default.fn

\* ------------------------------------------------------------------------
\* BaseModel
\* ------------------------------------------------------------------------
Range(sq) == {sq[i] : i \in 1..Len(sq)}

\* C15: the dirty collection holds exactly the names assigned since the last
\* save or load, each once and never a symbol; it is empty right after
\* instantiate and right after a successful save.
C15_DirtyExact ==
  modelPc # "none" =>
    /\ Range(listUpdatedFields) = assigned
    /\ Cardinality(Range(listUpdatedFields)) = Len(listUpdatedFields)
    /\ \A i \in 1..Len(listUpdatedFields) : ~IsSymbol(listUpdatedFields[i])

CreateSucceeded(ss) ==
  \E i \in DOMAIN ss : ss[i].kind = "create" /\ ss[i].status = "fulfilled"

\* C16: the new flag of a constructed instance is true until a create call of
\* save has succeeded and false from then on; when the connector call of a
\* save fails, the save rejects with the connector's error, the flag and the
\* dirty list stay as they are, and a later save calls create again.
C16_NewUntilCreated ==
  [][modelPc' = "new" =>
       /\ isNew' <=> ~CreateSucceeded(saves')
       /\ \A i \in DOMAIN saves :
            (saves[i].status = "pending" /\ saves'[i].status = "rejected") =>
              /\ saves'[i].error = ConnectorError
              /\ isNew' = isNew
              /\ listUpdatedFields' = listUpdatedFields
       /\ (Len(saves') > Len(saves) /\ isNew) =>
            saves'[Len(saves')].kind = "create"]_vars

C16_Witness ==
  /\ modelPc = "new"
  /\ Len(saves) = 2
  /\ saves[1].kind = "create" /\ saves[1].status = "rejected"
  /\ saves[2].kind = "create" /\ saves[2].status = "fulfilled"
  /\ ~isNew

\* C18: a save makes one connector call at most, when it is called: create
\* if the instance is new, updateOne if it is not new and dirty, and neither
\* a call nor a change of the instance if it is not new and not dirty.
C18_OneConnectorCallPerSave ==
  [][IF Len(saves') > Len(saves)
     THEN LET made == SubSeq(connectorCalls', Len(connectorCalls) + 1,
                             Len(connectorCalls'))
          IN /\ isNew => Len(made) = 1 /\ made[1].method = "create"
             /\ (~isNew /\ listUpdatedFields # <<>>) =>
                  Len(made) = 1 /\ made[1].method = "updateOne"
             /\ (~isNew /\ listUpdatedFields = <<>>) =>
                  /\ made = <<>>
                  /\ isNew' = isNew
                  /\ listUpdatedFields' = listUpdatedFields
                  /\ instance' = instance
     ELSE saves' # saves => connectorCalls' = connectorCalls]_vars

C18_Witness ==
  /\ modelPc = "loaded"
  /\ Len(saves) = 2
  /\ saves[1].kind = "update" /\ saves[1].status = "fulfilled"
  /\ saves[2].kind = "none"
  /\ Len(connectorCalls) = 1

\* C19: the updateOne call of save gives the connector, as its query and
\* update parameters, the primary query of the instance and a document whose
\* keys are the dirty names and whose values are the instance's values.
C19_UpdateOneReceives ==
  [][(Len(connectorCalls') > Len(connectorCalls)
       /\ connectorCalls'[Len(connectorCalls')].method = "updateOne") =>
      LET received == connectorCalls'[Len(connectorCalls')]
      IN /\ received.query.defined
         /\ received.query.obj = getQueryPrimary(Model)
         /\ received.update.defined
         /\ KeySet(received.update.obj) = Range(listUpdatedFields)
         /\ \A k \in Range(listUpdatedFields) :
              Get(received.update.obj, k) = Get(instance, k)]_vars

\* ------------------------------------------------------------------------
\* Schema.constructor over shared SchemaField objects
\* ------------------------------------------------------------------------
\* C17: in every Schema constructed so far, every key of the definition maps
\* to a SchemaField whose _name is that key, whatever was constructed since.
C17_NamesMatchKeys ==
  \A n \in DOMAIN schemas :
    \A i \in DOMAIN schemas[n].definition :
      fieldObjs[schemas[n].definition[i][2]]._name = schemas[n].definition[i][1]

\* ------------------------------------------------------------------------
\* Schema.getProxy
\* ------------------------------------------------------------------------
\* C20: an assignment through the proxy stores the field's castValue of the
\* value for a declared property, the value itself for a symbol, and nothing
\* for an undeclared string key; the instance never has an undeclared string
\* key.
C20_ProxySetGuards ==
  /\ lastSet # NoSet =>
       LET p == lastSet.property
           declared == p \in {schema.properties[i] : i \in 1..Len(schema.properties)}
       IN /\ declared =>
               /\ Has(proxied, p)
               /\ Get(proxied, p) = castValue(FieldOf(p), lastSet.value)
               /\ Delete(proxied, p) = Delete(lastSet.before, p)
          /\ (~declared /\ IsSymbol(p)) =>
               /\ Has(proxied, p)
               /\ Get(proxied, p) = lastSet.value
               /\ Delete(proxied, p) = Delete(lastSet.before, p)
          /\ (~declared /\ ~IsSymbol(p)) => proxied = lastSet.before
  /\ \A k \in KeySet(proxied) :
       IsSymbol(k) \/ k \in {schema.properties[i] : i \in 1..Len(schema.properties)}

C20_Witness ==
  /\ lastSet.property = "extra"
  /\ setReturn.returned = "Error"
  /\ Has(proxied, IS_NEW)
  /\ Get(proxied, "name") = "ann"

\* ------------------------------------------------------------------------
\* required()
\* ------------------------------------------------------------------------
\* a field declared required, with no default, that the object given has no
\* defined value for
RequiredMissing(p) ==
  /\ FieldOf(p)._isRequired
  /\ FieldOf(p)._default = Literal(NULL)
  /\ Get(given, p) = UNDEF

\* the outcome of a settled SchemaField.init agrees with the field's
\* validation and default alone
OutcomeIgnoresRequired(p) ==
  LET f == required(FieldOf(p), FALSE)
      value == Get(given, p)
  IN IF value # UNDEF
     THEN IF isValid(f, value)
          THEN fieldPc[p] = "returned" /\ fieldRet[p] = value
          ELSE fieldPc[p] = "threw" /\ fieldErr[p] = Invalid(value, p)
     ELSE fieldPc[p] = "returned" /\ fieldRet[p] = f._default.value

\* C21: for a required field with no default and an undefined raw value,
\* SchemaField.init stores null under the key and returns it, Schema.init
\* does not reject on its account, and the required flag changes no outcome
\* of init.
C21_RequiredNotEnforced ==
  [][op' = "init" =>
       \A p \in {schema.properties[i] : i \in 1..Len(schema.properties)} :
         /\ (RequiredMissing(p)' /\ fieldPc[p] # "returned" /\ fieldPc'[p] = "returned") =>
              /\ fieldRet'[p] = NULL
              /\ Has(heap'.arg, p) /\ Get(heap'.arg, p) = NULL
         /\ (RequiredMissing(p)' /\ result'.status = "rejected") =>
              result'.error.field # p
         /\ FieldSettled(Machine, p)' => OutcomeIgnoresRequired(p)']_vars

\* ------------------------------------------------------------------------
\* BaseModel.remove
\* ------------------------------------------------------------------------
\* C22: remove on a new instance returns a rejected promise, calls no
\* connector method and changes nothing; on an instance that is not new it
\* calls removeOne once, with the primary query of the instance.
C22_RemoveGuardsNew ==
  [][Len(removes') > Len(removes) =>
       LET returned == removes'[Len(removes')]
       IN IF isNew
          THEN /\ returned.status = "rejected"
               /\ returned.error = UnsavedInstance
               /\ connectorCalls' = connectorCalls
               /\ isNew' = isNew
               /\ listUpdatedFields' = listUpdatedFields
               /\ instance' = instance
          ELSE /\ returned.status = "connector"
               /\ Len(connectorCalls') = Len(connectorCalls) + 1
               /\ SubSeq(connectorCalls', 1, Len(connectorCalls)) = connectorCalls
               /\ connectorCalls'[Len(connectorCalls')].method = "removeOne"
               /\ connectorCalls'[Len(connectorCalls')].args = << getQueryPrimary(Model) >>]_vars

C22_Witness ==
  /\ Len(removes) = 2
  /\ removes[1].status = "rejected"
  /\ removes[2].status = "connector"
  /\ connectorCalls # <<>>
  /\ connectorCalls[Len(connectorCalls)].method = "removeOne"

\* ------------------------------------------------------------------------
\* Assignments while a save is pending
\* ------------------------------------------------------------------------
\* C23: when the connector call of a save succeeds, the dirty list becomes
\* empty whatever was assigned since the save was called; the values
\* assigned meanwhile stay on the instance and go to no connector call.
C23_SaveResetsDirtyList ==
  [][\A i \in DOMAIN saves :
       (saves[i].status = "pending" /\ saves'[i].status = "fulfilled") =>
         /\ listUpdatedFields' = <<>>
         /\ instance' = instance
         /\ connectorCalls' = connectorCalls]_vars

\* a loaded instance was saved with the update document {name: 'Ann'}, then
\* assigned name = 'bad' before the connector answered
C23_Witness ==
  /\ Len(saves) = 1
  /\ saves[1].kind = "update" /\ saves[1].status = "fulfilled"
  /\ Len(connectorCalls) = 1
  /\ Get(connectorCalls[1].args[2], "name") = "Ann"
  /\ Get(instance, "name") = "bad"
  /\ listUpdatedFields = <<>>

\* ------------------------------------------------------------------------
\* MongoConnector.getCollection
\* ------------------------------------------------------------------------
\* C24: db.collection is invoked once at most, by the first operation,
\* whatever operations are called and in whatever order they resume; once
\* the lookup has failed it is not made again, and no operation, called
\* before or after the failure, ends otherwise than rejected with the
\* lookup's error.
C24_CollectionLookedUpOnce ==
  [][/\ lookups' <= 1
     /\ ops' # <<>> => lookups' = 1
     /\ collection.status = "rejected" => (collection' = collection /\ lookups' = lookups)
     /\ collection'.status = "rejected" =>
          \A i \in DOMAIN ops' :
            /\ ops'[i].status # "fulfilled"
            /\ ops'[i].status = "rejected" => ops'[i].error = collection'.error]_vars

C24_Witness ==
  /\ collection.status = "rejected"
  /\ Len(ops) = 2
  /\ ops[1].seen = "unset" /\ ops[1].status = "rejected"
  /\ ops[2].seen = "rejected" /\ ops[2].status = "rejected"
  /\ ops[1].method # ops[2].method
====
